---- MODULE Spec2Model ----
(***************************************************************************)
(* Field overrides for custom courses (lms/djangoapps/ccx/overrides.py).   *)
(*                                                                         *)
(* The override store (CcxFieldOverride rows), the per-block cache         *)
(* (block._ccx_overrides) and the three entry points                       *)
(*   CustomCoursesForEdxOverrideProvider.get   (get_override)              *)
(*   override_field_for_ccx                    (set_override)              *)
(*   clear_override_for_ccx                    (clear_override)            *)
(* are modelled statement by statement.  Every database statement is one   *)
(* step of the calling execution context, so that calls of different       *)
(* contexts can interleave between statements.                             *)
(***************************************************************************)
EXTENDS Integers, Sequences, FiniteSets, TLC

(***************************************************************************)
(* Bounds of the model.                                                    *)
(***************************************************************************)
NumValues == 2      \* values a caller may pass per field

(***************************************************************************)
(* Execution contexts (requests/tasks).  Each owns its in-memory blocks.   *)
(***************************************************************************)
Procs == {"p1", "p2"}

(***************************************************************************)
(* Python values.  Every value is a record [t, n] so that values of        *)
(* different types can be compared.                                        *)
(***************************************************************************)
None == [t |-> "none", n |-> 0]
IntVal(n) == [t |-> "int", n |-> n]
DateVal(n) == [t |-> "date", n |-> n]

FieldNames == {"max_attempts", "due"}

\* block.fields[name]: the field object, here its type.
BlockFields(name) == IF name = "due" THEN "Date" ELSE "Integer"

\* The values callers pass to set_override for a field, and the defaults
\* callers pass to get_override.
ValuesOf(name) ==
    IF BlockFields(name) = "Date"
        THEN {DateVal(12)}
        ELSE {IntVal(5 * i) : i \in 1..NumValues}
DefaultsOf(name) ==
    IF BlockFields(name) = "Date" THEN {None} ELSE {IntVal(3)}

(***************************************************************************)
(* Text: sequences of one-character strings.                               *)
(***************************************************************************)
DigitChars == <<"0", "1", "2", "3", "4", "5", "6", "7", "8", "9">>

RECURSIVE Digits(_)
Digits(n) ==
    IF n < 10 THEN <<DigitChars[n + 1]>>
    ELSE Digits(n \div 10) \o <<DigitChars[(n % 10) + 1]>>

DigitValue(c) == (CHOOSE i \in 1..10 : DigitChars[i] = c) - 1

RECURSIVE ParseDigits(_)
ParseDigits(s) ==
    IF Len(s) = 0 THEN 0
    ELSE 10 * ParseDigits(SubSeq(s, 1, Len(s) - 1)) + DigitValue(s[Len(s)])

(***************************************************************************)
(* JSON values: numbers [j |-> "num", n] and strings [j |-> "str", s].     *)
(***************************************************************************)
JNum(n) == [j |-> "num", n |-> n, s |-> <<>>]
JStr(s) == [j |-> "str", n |-> 0, s |-> s]

\* field.to_json(value): an Integer field hands the number through, a Date
\* field formats the date as a string.
to_json(field, value) ==
    IF field = "Date" THEN JStr(<<"D">> \o Digits(value.n))
    ELSE JNum(value.n)

\* field.from_json(json): the inverse conversions of the field types.
from_json(field, json) ==
    IF field = "Date"
        THEN DateVal(ParseDigits(SubSeq(json.s, 2, Len(json.s))))
        ELSE IntVal(json.n)

\* json.dumps: a number is written as its digits, a string in quotes.
json_dumps(json) ==
    IF json.j = "str" THEN <<"\"">> \o json.s \o <<"\"">>
    ELSE Digits(json.n)

\* json.loads
json_loads(text) ==
    IF text[1] = "\"" THEN JStr(SubSeq(text, 2, Len(text) - 1))
    ELSE JNum(ParseDigits(text))

(***************************************************************************)
(* Keys.  A course key is a CourseLocator (ccx = 0) or a CCXLocator that   *)
(* embeds a context id (ccx > 0).  A usage key (block location) is a       *)
(* BlockUsageLocator (base form, ccx = 0) or a CCXBlockUsageLocator        *)
(* (context-qualified form, ccx > 0).                                      *)
(***************************************************************************)
CourseKey(ccx) == [ccx |-> ccx]
UsageKey(base, ccx) == [base |-> base, ccx |-> ccx]

\* usage_key.course_key
course_key(location) == CourseKey(location.ccx)

\* isinstance(course_key, CCXLocator) / isinstance(location, CCXBlockUsageLocator)
IsCCXLocator(key) == key.ccx # 0
IsCCXBlockUsageLocator(location) == location.ccx # 0

\* CCXBlockUsageLocator.to_block_locator(): strips the context qualifier.
to_block_locator(location) == UsageKey(location.base, 0)

\* The CustomCourseForEdX records (primary keys).  Context 3 is embedded in
\* a course key but has no record.
CcxRecords == {1, 2}
DanglingCcx == 3

(***************************************************************************)
(* The in-memory block objects.  idKind tells what getattr(block, 'id',    *)
(* None) is; idKey is the course key that id is or carries.                *)
(***************************************************************************)
NoKey == CourseKey(0)
NoLocation == UsageKey("none", 0)

Blocks == {"base", "ccx", "plain", "orphan", "odd"}

Block(b) ==
    CASE b = "base" ->    \* id is a CCX course key, location in base form
            [owner |-> "p1", idKind |-> "CourseKey", idKey |-> CourseKey(1),
             hasLocation |-> TRUE, location |-> UsageKey("L1", 0)]
      [] b = "ccx" ->     \* id is a usage key, location context-qualified
            [owner |-> "p1", idKind |-> "UsageKey", idKey |-> CourseKey(1),
             hasLocation |-> TRUE, location |-> UsageKey("L1", 1)]
      [] b = "plain" ->   \* block of the base course: only a location
            [owner |-> "p2", idKind |-> "None", idKey |-> NoKey,
             hasLocation |-> TRUE, location |-> UsageKey("L1", 0)]
      [] b = "orphan" ->  \* CCX course key whose context has no record
            [owner |-> "p2", idKind |-> "CourseKey",
             idKey |-> CourseKey(DanglingCcx),
             hasLocation |-> FALSE, location |-> NoLocation]
      [] OTHER ->         \* "odd": neither an id nor a location
            [owner |-> "p2", idKind |-> "None", idKey |-> NoKey,
             hasLocation |-> FALSE, location |-> NoLocation]

BlocksOf(p) == {b \in Blocks : Block(b).owner = p}
\* set_override and clear_override read block.location and block.fields.
WritableBlocksOf(p) == {b \in BlocksOf(p) : Block(b).hasLocation}

(***************************************************************************)
(* State.                                                                  *)
(***************************************************************************)
VARIABLES
    store,   \* committed CcxFieldOverride rows [pk, ccx, location, field, value]
    tx,      \* tx[p]: rows written by p's open transaction, not yet committed
    pc,      \* pc[p]: the statement p executes next
    call,    \* call[p]: arguments and locals of p's call in progress
    cache,   \* cache[b]: block._ccx_overrides of block b
    last     \* the call that completed most recently, until the next
             \* call is made

vars == <<store, tx, pc, call, cache, last>>

NoPk == <<0, NoLocation, "", 0>>
NoRow == [pk |-> NoPk, ccx |-> 0, location |-> NoLocation, field |-> "", value |-> <<>>]

NoCall ==
    [op |-> "none", proc |-> "", ccx |-> 0, block |-> "", name |-> "",
     value |-> None, row |-> NoRow, result |-> None, err |-> "",
     conflict |-> FALSE, found |-> FALSE, inserts |-> 0, fetches |-> 0,
     queries |-> 0, logged |-> FALSE]

\* block._ccx_overrides: absent (has = FALSE) or a dict from context id to
\* a dict from field name to value.
EmptyDict == [k \in {} |-> None]
NoAttr == [has |-> FALSE, map |-> EmptyDict]

DictDel(d, k) == [x \in (DOMAIN d) \ {k} |-> d[x]]
DictSet(d, k, v) == [x \in (DOMAIN d) \cup {k} |-> IF x = k THEN v ELSE d[x]]

Init ==
    /\ store = {}
    /\ tx = [p \in Procs |-> {}]
    /\ pc = [p \in Procs |-> "idle"]
    /\ call = [p \in Procs |-> NoCall]
    /\ cache = [b \in Blocks |-> NoAttr]
    /\ last = NoCall

(***************************************************************************)
(* The persistence layer: CcxFieldOverride.objects and the transaction of  *)
(* the calling execution context.                                          *)
(***************************************************************************)
SameKey(r, ccx, location, field) ==
    r.ccx = ccx /\ r.location = location /\ r.field = field

Pks(rows) == {r.pk : r \in rows}

\* The rows p's statements see: the committed rows, overlaid with the rows
\* p's own open transaction has written.
Visible(p) == {r \in store : r.pk \notin Pks(tx[p])} \cup tx[p]

\* transaction.commit(): the rows of the open transaction become the
\* committed ones.
Commit(rows, pending) == {r \in rows : r.pk \notin Pks(pending)} \cup pending

\* A statement that writes row waits while another open transaction holds
\* an uncommitted write of the same row or of the same unique key.
LockedByOther(p, row) ==
    \E q \in Procs \ {p} : \E r \in tx[q] :
        r.pk = row.pk \/ SameKey(r, row.ccx, row.location, row.field)

\* Mutant: the constraint is not enforced.
UniqueConflictNotEnforced(rows, row) == FALSE

\* The uniqueness constraint on (ccx, location, field): inserting or saving
\* row into rows raises IntegrityError when another row has its key.
UniqueConflict(rows, row) ==
    \E r \in rows : r.pk # row.pk /\ SameKey(r, row.ccx, row.location, row.field)

\* The primary key of a new row (the AutoField id): a key that no row and
\* no object still referring to a deleted row carries.  Primary keys are
\* opaque, so the model names them by the unique key of the row and a
\* serial number among the rows of that key.
UsedPks ==
    Pks(store) \cup UNION {Pks(tx[p]) : p \in Procs}
        \cup {call[p].row.pk : p \in Procs}
NewPk(ccx, location, field) ==
    LET serial == CHOOSE n \in 1..(Cardinality(Procs) + 2) :
                    /\ <<ccx, location, field, n>> \notin UsedPks
                    /\ \A m \in 1..(n - 1) :
                            <<ccx, location, field, m>> \in UsedPks
    IN  <<ccx, location, field, serial>>

\* CcxFieldOverride.objects.filter(ccx=ccx, location=location)
ObjectsFilter(rows, ccx, location) ==
    {r \in rows : r.ccx = ccx /\ r.location = location}

\* CcxFieldOverride.objects.get(ccx=ccx, location=location, field=name):
\* the matching rows; get raises DoesNotExist when there is none.
ObjectsGet(rows, ccx, location, field) ==
    {r \in rows : SameKey(r, ccx, location, field)}

(***************************************************************************)
(* The read path.                                                          *)
(***************************************************************************)
\* Mutant: the unrecognised identifier is passed over without the error log.
ResolveCourseIdSilent(b) ==
    LET blk == Block(b) IN
    IF blk.idKind \in {"CourseKey", "UsageKey"}
        THEN [has |-> TRUE, key |-> blk.idKey, logged |-> FALSE]
    ELSE IF blk.hasLocation
        THEN [has |-> TRUE, key |-> course_key(blk.location), logged |-> FALSE]
    ELSE [has |-> FALSE, key |-> NoKey, logged |-> FALSE]

\* CustomCoursesForEdxOverrideProvider.get, the identifier dispatch: the
\* course id of the block (has = FALSE: course_id stays None) and whether
\* the error diagnostic was logged.
ResolveCourseId(b) ==
    LET blk == Block(b) IN
    IF blk.idKind = "CourseKey"
        THEN [has |-> TRUE, key |-> blk.idKey, logged |-> FALSE]
    ELSE IF blk.idKind = "UsageKey"
        THEN [has |-> TRUE, key |-> blk.idKey, logged |-> FALSE]
    ELSE IF blk.hasLocation
        THEN [has |-> TRUE, key |-> course_key(blk.location), logged |-> FALSE]
    ELSE [has |-> FALSE, key |-> NoKey, logged |-> TRUE]

\* Mutant: a course key that is no CCXLocator falls back to context 1.
get_current_ccx_fallback(course_id) ==
    IF IsCCXLocator(course_id)
        THEN IF course_id.ccx \in CcxRecords
                THEN [ccx |-> course_id.ccx, err |-> "ok"]
                ELSE [ccx |-> 0, err |-> "DoesNotExist"]
        ELSE [ccx |-> 1, err |-> "ok"]

\* Mutant: DoesNotExist of the context lookup is swallowed.
get_current_ccx_swallow(course_id) ==
    IF IsCCXLocator(course_id) /\ course_id.ccx \in CcxRecords
        THEN [ccx |-> course_id.ccx, err |-> "ok"]
        ELSE [ccx |-> 0, err |-> "ok"]

\* get_current_ccx: the context id of a CCX course key (0: None);
\* CustomCourseForEdX.objects.get raises DoesNotExist when it has no record.
get_current_ccx(course_id) ==
    IF IsCCXLocator(course_id)
        THEN IF course_id.ccx \in CcxRecords
                THEN [ccx |-> course_id.ccx, err |-> "ok"]
                ELSE [ccx |-> 0, err |-> "DoesNotExist"]
        ELSE [ccx |-> 0, err |-> "ok"]

\* _get_overrides_for_ccx: the dict from field name to decoded value of the
\* rows stored for (ccx, base form of block.location).
QueryLocation(b) ==
    IF IsCCXBlockUsageLocator(Block(b).location)
        THEN to_block_locator(Block(b).location)
        ELSE Block(b).location

DecodeRow(r) == from_json(BlockFields(r.field), json_loads(r.value))

get_overrides_for_ccx(rows, ccx, b) ==
    LET query == ObjectsFilter(rows, ccx, QueryLocation(b))
    IN  [f \in {r.field : r \in query} |->
            DecodeRow(CHOOSE r \in query : r.field = f)]

\* Mutant: 'if not overrides' in place of 'if overrides is None': an empty
\* cached mapping counts as a miss.
get_override_for_ccx_truthy(rows, attr, ccx, b, name, default) ==
    LET map0 == IF attr.has THEN attr.map ELSE EmptyDict
        miss == ccx \notin DOMAIN map0 \/ map0[ccx] = EmptyDict
        overrides == IF miss THEN get_overrides_for_ccx(rows, ccx, b)
                     ELSE map0[ccx]
        map1 == IF miss THEN DictSet(map0, ccx, overrides) ELSE map0
    IN  [result |-> IF name \in DOMAIN overrides THEN overrides[name]
                    ELSE default,
         cache |-> [has |-> TRUE, map |-> map1],
         queries |-> IF miss THEN 1 ELSE 0]

\* get_override_for_ccx: the value returned, the block's cache afterwards
\* and the number of store queries made.
get_override_for_ccx(rows, attr, ccx, b, name, default) ==
    LET map0 == IF attr.has THEN attr.map ELSE EmptyDict
        miss == ccx \notin DOMAIN map0
        overrides == IF miss THEN get_overrides_for_ccx(rows, ccx, b)
                     ELSE map0[ccx]
        map1 == IF miss THEN DictSet(map0, ccx, overrides) ELSE map0
    IN  [result |-> IF name \in DOMAIN overrides THEN overrides[name]
                    ELSE default,
         cache |-> [has |-> TRUE, map |-> map1],
         queries |-> IF miss THEN 1 ELSE 0]

\* Mutant: the cache attribute is set up before the context is looked at,
\* so the path without a context touches the block too.
ProviderGetEagerAttr(rows, attr, b, name, default) ==
    LET id == ResolveCourseId(b)
        cur == IF id.has THEN get_current_ccx(id.key)
               ELSE [ccx |-> 0, err |-> "ok"]
        attr1 == [has |-> TRUE, map |-> IF attr.has THEN attr.map ELSE EmptyDict]
        got == get_override_for_ccx(rows, attr, cur.ccx, b, name, default)
    IN  IF cur.err # "ok"
            THEN [result |-> None, err |-> cur.err, logged |-> id.logged,
                  queries |-> 0, cache |-> attr]
        ELSE IF cur.ccx = 0
            THEN [result |-> default, err |-> "ok", logged |-> id.logged,
                  queries |-> 0, cache |-> attr1]
        ELSE IF ~Block(b).hasLocation
            THEN [result |-> None, err |-> "AttributeError",
                  logged |-> id.logged, queries |-> 0, cache |-> attr1]
        ELSE [result |-> got.result, err |-> "ok", logged |-> id.logged,
              queries |-> got.queries, cache |-> got.cache]

\* CustomCoursesForEdxOverrideProvider.get as a whole: what it returns or
\* raises, what it logs, and the block's cache afterwards.
ProviderGet(rows, attr, b, name, default) ==
    LET id == ResolveCourseId(b)
        cur == IF id.has THEN get_current_ccx(id.key)
               ELSE [ccx |-> 0, err |-> "ok"]
        got == get_override_for_ccx(rows, attr, cur.ccx, b, name, default)
    IN  IF cur.err # "ok"
            THEN [result |-> None, err |-> cur.err, logged |-> id.logged,
                  queries |-> 0, cache |-> attr]
        ELSE IF cur.ccx = 0
            THEN [result |-> default, err |-> "ok", logged |-> id.logged,
                  queries |-> 0, cache |-> attr]
        ELSE IF ~Block(b).hasLocation
            THEN [result |-> None, err |-> "AttributeError",
                  logged |-> id.logged, queries |-> 0,
                  cache |-> [has |-> TRUE,
                             map |-> IF attr.has THEN attr.map ELSE EmptyDict]]
        ELSE [result |-> got.result, err |-> "ok", logged |-> id.logged,
              queries |-> got.queries, cache |-> got.cache]

(***************************************************************************)
(* Calls.  A call starts when its execution context is idle; with          *)
(* overlap = FALSE it starts only when no call at all is in progress.      *)
(***************************************************************************)
MayStart(p, overlap) ==
    /\ pc[p] = "idle"
    /\ overlap \/ \A q \in Procs : pc[q] = "idle"

\* The (context, block, field) triples the write calls are made with:
\* "max_attempts" under context 1 through every block, "due" under
\* context 1 through the block in base form, and one key under context 2,
\* the context no block resolves to.  Overlapping calls are explored on
\* one key: context 1, "max_attempts", the location in base form.
WriteTargets(p, overlap) ==
    {t \in [ccx : CcxRecords, block : WritableBlocksOf(p), name : FieldNames] :
        /\ t.name = "due" => t.block = "base"
        /\ t.ccx # 1 => t.block = "base" /\ t.name = "due"
        /\ overlap => /\ t.ccx = 1 /\ t.name = "max_attempts"
                      /\ ~IsCCXBlockUsageLocator(Block(t.block).location)}

\* A call ends: its record becomes the last completed call.
Finished(c, err) == [c EXCEPT !.err = err, !.row = NoRow]

\* get_override(block, name, default): one step; it makes at most one read
\* of the context record and one query of the override store.
GetOverride(p, overlap) ==
    \E b \in BlocksOf(p), name \in FieldNames :
    \E default \in DefaultsOf(name) :
        LET out == ProviderGet(Visible(p), cache[b], b, name, default) IN
        /\ MayStart(p, overlap)
        /\ cache' = [cache EXCEPT ![b] = out.cache]
        /\ last' = [NoCall EXCEPT !.op = "get", !.proc = p, !.block = b,
                        !.name = name, !.value = default,
                        !.result = out.result, !.err = out.err,
                        !.logged = out.logged, !.queries = out.queries]
        /\ UNCHANGED <<store, tx, pc, call>>

(***************************************************************************)
(* The cache invalidation both write calls end with:                       *)
(*     if hasattr(block, '_ccx_overrides'):                                *)
(*         del block._ccx_overrides[ccx.id]                                *)
(* del raises KeyError when the dict has no entry for the context.         *)
(***************************************************************************)
InvalidateErr(attr, ccx) ==
    IF attr.has /\ ccx \notin DOMAIN attr.map THEN "KeyError" ELSE "ok"

\* Mutant: the entry is not deleted.
InvalidatedKeepsEntry(attr, ccx) == attr

Invalidated(attr, ccx) ==
    IF attr.has /\ ccx \in DOMAIN attr.map
        THEN [attr EXCEPT !.map = DictDel(attr.map, ccx)]
        ELSE attr

(***************************************************************************)
(* set_override: override_field_for_ccx, under @transaction.commit_on_     *)
(* success: the transaction is committed when the function returns and     *)
(* rolled back when it raises.                                             *)
(***************************************************************************)
\* The call is made with a context, a block of the caller and a field.
SetCall(p, overlap) ==
    \E t \in WriteTargets(p, overlap) :
    \E value \in ValuesOf(t.name) :
        LET ccx == t.ccx  b == t.block  name == t.name IN
        /\ MayStart(p, overlap)
        /\ pc' = [pc EXCEPT ![p] = "create"]
        /\ call' = [call EXCEPT ![p] =
                        [NoCall EXCEPT !.op = "set", !.proc = p, !.ccx = ccx,
                            !.block = b, !.name = name, !.value = value]]
        /\ last' = NoCall
        /\ UNCHANGED <<store, tx, cache>>

\* The exception leaves the function: the transaction is rolled back.
Raise(p, err) ==
    /\ tx' = [tx EXCEPT ![p] = {}]
    /\ pc' = [pc EXCEPT ![p] = "idle"]
    /\ call' = [call EXCEPT ![p] = NoCall]
    /\ last' = Finished(call[p], err)

\* The serialised value: json.dumps(field.to_json(value)).
Serialized(name, value) == json_dumps(to_json(BlockFields(name), value))

\* CcxFieldOverride.objects.create(...).  On IntegrityError the handler
\* commits the transaction and goes on to fetch the existing row.
SetCreate(p) ==
    LET c == call[p]
        row == [pk |-> NewPk(c.ccx, Block(c.block).location, c.name),
                ccx |-> c.ccx, location |-> Block(c.block).location,
                field |-> c.name, value |-> Serialized(c.name, c.value)]
    IN  /\ pc[p] = "create"
        /\ ~LockedByOther(p, row)
        /\ IF UniqueConflict(Visible(p), row)
              THEN /\ store' = Commit(store, tx[p])
                   /\ tx' = [tx EXCEPT ![p] = {}]
                   /\ pc' = [pc EXCEPT ![p] = "fetch"]
                   /\ call' = [call EXCEPT ![p].conflict = TRUE,
                                           ![p].inserts = c.inserts + 1]
              ELSE /\ tx' = [tx EXCEPT ![p] = tx[p] \cup {row}]
                   /\ pc' = [pc EXCEPT ![p] = "save"]
                   /\ call' = [call EXCEPT ![p].row = row,
                                           ![p].inserts = c.inserts + 1]
                   /\ store' = store
        /\ UNCHANGED <<cache, last>>

\* The fallback: CcxFieldOverride.objects.get(...); override.value = value.
SetFetch(p) ==
    LET c == call[p]
        found == ObjectsGet(Visible(p), c.ccx, Block(c.block).location, c.name)
    IN  /\ pc[p] = "fetch"
        /\ IF found = {}
              THEN Raise(p, "DoesNotExist")
           ELSE IF Cardinality(found) > 1
              THEN Raise(p, "MultipleObjectsReturned")
           ELSE /\ call' = [call EXCEPT
                              ![p].row = [(CHOOSE r \in found : TRUE) EXCEPT
                                            !.value = Serialized(c.name, c.value)],
                              ![p].fetches = c.fetches + 1]
                /\ pc' = [pc EXCEPT ![p] = "save"]
                /\ UNCHANGED <<tx, last>>
        /\ UNCHANGED <<store, cache>>

\* override.save(): updates the row with the object's primary key, and
\* inserts the object when no such row exists any more.
SetSave(p) ==
    LET row == call[p].row IN
    /\ pc[p] = "save"
    /\ ~LockedByOther(p, row)
    /\ IF row.pk \notin Pks(Visible(p)) /\ UniqueConflict(Visible(p), row)
          THEN Raise(p, "IntegrityError")
          ELSE /\ tx' = [tx EXCEPT ![p] = {r \in tx[p] : r.pk # row.pk} \cup {row}]
               /\ pc' = [pc EXCEPT ![p] = "invalidate"]
               /\ UNCHANGED <<call, last>>
    /\ UNCHANGED <<store, cache>>

\* Mutant: the function runs without the managed transaction, so what it
\* saved stays when del raises.
SetInvalidateNoRollback(p) ==
    LET c == call[p] IN
    /\ pc[p] = "invalidate"
    /\ store' = Commit(store, tx[p])
    /\ tx' = [tx EXCEPT ![p] = {}]
    /\ pc' = [pc EXCEPT ![p] = "idle"]
    /\ call' = [call EXCEPT ![p] = NoCall]
    /\ cache' = [cache EXCEPT ![c.block] = Invalidated(@, c.ccx)]
    /\ last' = Finished(c, InvalidateErr(cache[c.block], c.ccx))

\* The cache invalidation, and the end of the call: commit on return,
\* rollback when del raises.
SetInvalidate(p) ==
    LET c == call[p] IN
    /\ pc[p] = "invalidate"
    /\ IF InvalidateErr(cache[c.block], c.ccx) # "ok"
          THEN /\ Raise(p, InvalidateErr(cache[c.block], c.ccx))
               /\ UNCHANGED <<store, cache>>
          ELSE /\ cache' = [cache EXCEPT ![c.block] = Invalidated(@, c.ccx)]
               /\ store' = Commit(store, tx[p])
               /\ tx' = [tx EXCEPT ![p] = {}]
               /\ pc' = [pc EXCEPT ![p] = "idle"]
               /\ call' = [call EXCEPT ![p] = NoCall]
               /\ last' = Finished(c, "ok")

(***************************************************************************)
(* clear_override: clear_override_for_ccx.  It runs outside a managed      *)
(* transaction: its delete is committed by the statement itself.           *)
(***************************************************************************)
ClearCall(p, overlap) ==
    \E t \in WriteTargets(p, overlap) :
        LET ccx == t.ccx  b == t.block  name == t.name IN
        /\ MayStart(p, overlap)
        /\ pc' = [pc EXCEPT ![p] = "clear_get"]
        /\ call' = [call EXCEPT ![p] =
                        [NoCall EXCEPT !.op = "clear", !.proc = p, !.ccx = ccx,
                            !.block = b, !.name = name]]
        /\ last' = NoCall
        /\ UNCHANGED <<store, tx, cache>>

\* Mutant: DoesNotExist is not caught.
ClearDoesNotExistRaises(p) == Raise(p, "DoesNotExist")

\* What the handler does with DoesNotExist: except ...: pass.
ClearDoesNotExist(p) ==
    /\ pc' = [pc EXCEPT ![p] = "idle"]
    /\ call' = [call EXCEPT ![p] = NoCall]
    /\ last' = Finished(call[p], "ok")
    /\ UNCHANGED tx

\* CcxFieldOverride.objects.get(...)
ClearGet(p) ==
    LET c == call[p]
        found == ObjectsGet(Visible(p), c.ccx, Block(c.block).location, c.name)
    IN  /\ pc[p] = "clear_get"
        /\ IF found = {}
              THEN ClearDoesNotExist(p)
           ELSE IF Cardinality(found) > 1
              THEN Raise(p, "MultipleObjectsReturned")
           ELSE /\ call' = [call EXCEPT ![p].row = CHOOSE r \in found : TRUE,
                                        ![p].found = TRUE]
                /\ pc' = [pc EXCEPT ![p] = "clear_delete"]
                /\ UNCHANGED <<tx, last>>
        /\ UNCHANGED <<store, cache>>

\* Mutant: the delete is made on the block's rows of every field.
ClearDeleteAllFields(p) ==
    LET row == call[p].row IN
    /\ pc[p] = "clear_delete"
    /\ ~LockedByOther(p, row)
    /\ store' = {r \in store : ~(r.ccx = row.ccx /\ r.location = row.location)}
    /\ pc' = [pc EXCEPT ![p] = "clear_invalidate"]
    /\ UNCHANGED <<tx, call, cache, last>>

\* .delete(): deletes the row with the object's primary key, if it is
\* still there.
ClearDelete(p) ==
    LET row == call[p].row IN
    /\ pc[p] = "clear_delete"
    /\ ~LockedByOther(p, row)
    /\ store' = {r \in store : r.pk # row.pk}
    /\ pc' = [pc EXCEPT ![p] = "clear_invalidate"]
    /\ UNCHANGED <<tx, call, cache, last>>

\* The cache invalidation after the delete; KeyError is not caught.
ClearInvalidate(p) ==
    LET c == call[p] IN
    /\ pc[p] = "clear_invalidate"
    /\ IF InvalidateErr(cache[c.block], c.ccx) # "ok"
          THEN /\ Raise(p, InvalidateErr(cache[c.block], c.ccx))
               /\ UNCHANGED cache
          ELSE /\ cache' = [cache EXCEPT ![c.block] = Invalidated(@, c.ccx)]
               /\ pc' = [pc EXCEPT ![p] = "idle"]
               /\ call' = [call EXCEPT ![p] = NoCall]
               /\ last' = Finished(c, "ok")
               /\ UNCHANGED tx
    /\ UNCHANGED store

(***************************************************************************)
(* Specifications.                                                         *)
(*   Spec:     one call at a time (the synchronous, single-request model). *)
(*   ConcSpec: calls of different execution contexts overlap and           *)
(*             interleave between their statements.                        *)
(***************************************************************************)
Step(p) ==
    \/ SetCreate(p)
    \/ SetFetch(p)
    \/ SetSave(p)
    \/ SetInvalidate(p)
    \/ ClearGet(p)
    \/ ClearDelete(p)
    \/ ClearInvalidate(p)

Next ==
    \E p \in Procs :
        \/ GetOverride(p, FALSE)
        \/ SetCall(p, FALSE)
        \/ ClearCall(p, FALSE)
        \/ Step(p)

Spec == Init /\ [][Next]_vars

NextConc ==
    \E p \in Procs :
        \/ GetOverride(p, TRUE)
        \/ SetCall(p, TRUE)
        \/ ClearCall(p, TRUE)
        \/ Step(p)

ConcSpec == Init /\ [][NextConc]_vars

(***************************************************************************)
(* Properties.                                                             *)
(***************************************************************************)
\* The block's course key resolves to context ccx.
Resolves(b, ccx) ==
    /\ ResolveCourseId(b).has
    /\ get_current_ccx(ResolveCourseId(b).key) = [ccx |-> ccx, err |-> "ok"]

\* The block's identifier resolves to a context-qualified course key.
Qualified(b) == ResolveCourseId(b).has /\ IsCCXLocator(ResolveCourseId(b).key)

\* What get_override(b, name, default) returns or raises in this state.
GetNow(b, name, default) ==
    ProviderGet(Visible(Block(b).owner), cache[b], b, name, default)

\* The committed rows stored for the key of the write call c.
RowsOf(c) == ObjectsGet(store, c.ccx, Block(c.block).location, c.name)

\* C1: round trip.  When set_override(C, B, f, v) has returned, for a block
\* B that resolves to C, get_override(B, f, default) returns v.
C1_RoundTrip ==
    (last.op = "set" /\ last.err = "ok" /\ Resolves(last.block, last.ccx))
        => \A default \in DefaultsOf(last.name) :
              /\ GetNow(last.block, last.name, default).err = "ok"
              /\ GetNow(last.block, last.name, default).result = last.value

\* C2: a set_override on a key that already has a record (the second of
\* two calls) completes, and the store then holds exactly one record for
\* the key, with the value of this call.
C2_SecondSetWins ==
    (last.op = "set" /\ last.conflict)
        => /\ last.err = "ok"
           /\ Cardinality(RowsOf(last)) = 1
           /\ \A r \in RowsOf(last) :
                 r.value = Serialized(last.name, last.value)

\* C3: the store holds at most one override record per
\* (context, location, field name).
C3_OneRecordPerKey ==
    \A r1 \in store : \A r2 \in store :
        SameKey(r1, r2.ccx, r2.location, r2.field) => r1 = r2

\* C3 witness: two writers are inside calls on the same key, one of them
\* after a uniqueness conflict, while the store holds the record.
C3_Witness ==
    \E p \in Procs : \E q \in Procs \ {p} :
        /\ call[p].op = "set" /\ call[p].conflict
        /\ call[q].op \in {"set", "clear"}
        /\ Block(call[q].block).location = Block(call[p].block).location
        /\ call[q].ccx = call[p].ccx /\ call[q].name = call[p].name
        /\ RowsOf(call[p]) # {}

\* C4: when clear_override(C, B, f) has returned, for a block B that
\* resolves to C, get_override(B, f, X) returns X.
C4_ClearThenGetDefault ==
    (last.op = "clear" /\ last.err = "ok" /\ Resolves(last.block, last.ccx))
        => \A default \in DefaultsOf(last.name) :
              /\ GetNow(last.block, last.name, default).err = "ok"
              /\ GetNow(last.block, last.name, default).result = default

\* C5: a clear_override that finds no record for its key returns without
\* raising and leaves the store unchanged.
C5_ClearAbsentIsNoOp ==
    [][\A p \in Procs :
        (/\ pc[p] = "clear_get"
         /\ pc'[p] # "clear_get"
         /\ RowsOf(call[p]) = {})
        => (/\ store' = store
            /\ pc'[p] = "idle"
            /\ last'.op = "clear" /\ last'.proc = p
            /\ last'.err = "ok")]_vars

\* C5 witness: a clear_override returned having found no record for its
\* key, while the store holds other records.
C5_Witness ==
    /\ last.op = "clear" /\ ~last.found /\ last.err = "ok"
    /\ store # {}

\* C6: for a block whose identifier does not resolve to a context-qualified
\* course key, get_override returns exactly the default.
C6_UnqualifiedGetsDefault ==
    (last.op = "get" /\ ~Qualified(last.block))
        => (last.err = "ok" /\ last.result = last.value)

\* C6 witness: get_override returned for the block of the base course while
\* the store holds an override of that field at the block's location.
C6_Witness ==
    /\ last.op = "get" /\ last.block = "plain"
    /\ \E r \in store :
          r.location = Block("plain").location /\ r.field = last.name

\* C7 as stated: after any set_override or clear_override call returns, the
\* block carries no cache entry for the context's id.
C7_WriteInvalidates ==
    (last.op \in {"set", "clear"} /\ last.err = "ok")
        => last.ccx \notin DOMAIN cache[last.block].map

\* C7 as amended: after a set_override call returns, or a clear_override
\* call that found a record to delete returns, the block carries no cache
\* entry for the context's id.
C7_EffectiveWriteInvalidates ==
    (/\ last.op = "set" \/ (last.op = "clear" /\ last.found)
     /\ last.err = "ok")
        => last.ccx \notin DOMAIN cache[last.block].map

\* C7 witness: a clear_override that deleted a record returned, and the
\* block had a cache (the attribute is there, the entry is gone).
C7_Witness ==
    /\ last.op = "clear" /\ last.found /\ last.err = "ok"
    /\ cache[last.block].has

\* C8: a set_override whose insert hit a uniqueness conflict surfaces no
\* error of the persistence layer to its caller.
PersistenceErrors == {"DoesNotExist", "IntegrityError", "MultipleObjectsReturned"}

C8_ConflictBecomesUpdate ==
    (last.op = "set" /\ last.conflict) => last.err \notin PersistenceErrors

\* C9: get_override on a block whose course key embeds a context id without
\* a record raises the not-found error, makes no override query and leaves
\* the block without a cache.
C9_ContextNotFoundPropagates ==
    (/\ last.op = "get"
     /\ Qualified(last.block)
     /\ ResolveCourseId(last.block).key.ccx \notin CcxRecords)
        => /\ last.err = "DoesNotExist"
           /\ last.queries = 0
           /\ cache[last.block] = NoAttr

\* C9 witness: such a get_override was made, with records in the store.
C9_Witness ==
    /\ last.op = "get" /\ last.block = "orphan"
    /\ store # {}

\* C10: get_override on an object that has neither a key as id nor a
\* location logs the error, raises nothing and returns the default.
C10_UnrecognisedDegrades ==
    (/\ last.op = "get"
     /\ Block(last.block).idKind = "None"
     /\ ~Block(last.block).hasLocation)
        => /\ last.logged
           /\ last.err = "ok"
           /\ last.result = last.value

\* C10 witness: such a get_override was made, with records in the store.
C10_Witness ==
    /\ last.op = "get" /\ last.block = "odd"
    /\ store # {}

\* C11: cache coherence.  For every block instance whose execution context
\* is between calls and every context id it holds a cache entry for, the
\* cached mapping equals the mapping stored for (context, base location).
C11_CacheCoherent ==
    \A b \in Blocks :
        (pc[Block(b).owner] = "idle" /\ cache[b].has)
            => \A ccx \in DOMAIN cache[b].map :
                  cache[b].map[ccx] = get_overrides_for_ccx(store, ccx, b)

\* C12: every override record in the store has its location in base form.
C12_StoredLocationsBaseForm ==
    \A r \in store : ~IsCCXBlockUsageLocator(r.location)

\* C16: the cache invalidation of set_override, and of a clear_override
\* that deletes a record, never fails: no such call ends with KeyError.
C16_InvalidationNeverFails ==
    (last.op = "set" \/ (last.op = "clear" /\ last.found))
        => last.err # "KeyError"

\* The context the block's identifier resolves to (0: none).
ContextOf(b) ==
    IF ResolveCourseId(b).has
        THEN get_current_ccx(ResolveCourseId(b).key).ccx
        ELSE 0

\* C13: fast path.  A get_override that finds no active context makes no
\* override-store query and leaves the store and every cache as they were.
C13_FastPathFrame ==
    [][(last'.op = "get" /\ ~Qualified(last'.block))
        => (/\ last'.queries = 0
            /\ store' = store
            /\ cache' = cache)]_vars

\* C13 witness: get_override returned on the fast path while the store
\* held records at the block's location and another block held a cache.
C13_Witness ==
    /\ last.op = "get" /\ last.block = "plain" /\ last.queries = 0
    /\ \E r \in store : r.location = Block("plain").location
    /\ \E b \in Blocks : cache[b].has /\ DOMAIN cache[b].map # {}

\* The entry of block b's cache for context ccx is there.
Cached(attr, ccx) == attr.has /\ ccx \in DOMAIN attr.map

\* C14: lazy caching.  A get_override on a block that resolves to a context
\* makes one store query and caches the result under the context id when
\* the block has no entry for it, and makes no query and answers from the
\* cached mapping when it has one; an entry stays until a set_override or
\* clear_override on that block instance invalidates it.
C14_LazyCaching ==
    [][/\ (last'.op = "get" /\ last'.err = "ok"
                /\ ContextOf(last'.block) # 0)
            => LET b == last'.block
                   ccx == ContextOf(b)
               IN  IF Cached(cache[b], ccx)
                     THEN /\ last'.queries = 0
                          /\ cache' = cache
                          /\ last'.result =
                                IF last'.name \in DOMAIN cache[b].map[ccx]
                                    THEN cache[b].map[ccx][last'.name]
                                    ELSE last'.value
                     ELSE /\ last'.queries = 1
                          /\ Cached(cache'[b], ccx)
                          /\ \A f \in FieldNames :
                                f \in DOMAIN cache'[b].map[ccx]
                                  <=> \E r \in store :
                                        SameKey(r, ccx,
                                            to_block_locator(Block(b).location), f)
       /\ \A b \in Blocks : \A ccx \in CcxRecords :
            (Cached(cache[b], ccx) /\ ~Cached(cache'[b], ccx))
                => \E p \in Procs :
                      /\ pc[p] \in {"invalidate", "clear_invalidate"}
                      /\ call[p].block = b /\ call[p].ccx = ccx]_vars

\* C14 witness: a get_override was answered without a query from a cached
\* mapping that is empty.
C14_Witness ==
    /\ last.op = "get" /\ last.err = "ok" /\ last.queries = 0
    /\ ContextOf(last.block) # 0
    /\ cache[last.block].map[ContextOf(last.block)] = EmptyDict

\* The statements of set_override in the order the code runs them.
Rank(at) ==
    CASE at = "create" -> 1
      [] at = "fetch" -> 2
      [] at = "save" -> 3
      [] at = "invalidate" -> 4
      [] OTHER -> 5

\* The part of C15 about attempts: a set_override makes one insert attempt
\* and, only after a uniqueness conflict, one fallback fetch; it never goes
\* back to an earlier statement.
AttemptsBounded(c) ==
    /\ c.inserts <= 1 /\ c.fetches <= 1
    /\ c.fetches = 1 => c.conflict

SetNeverRetries ==
    /\ [](\A p \in Procs : call[p].op = "set" => AttemptsBounded(call[p]))
    /\ [][\A p \in Procs :
            (call[p].op = "set" /\ pc'[p] # pc[p])
                => Rank(pc'[p]) > Rank(pc[p])]_vars

\* C15: a set_override makes at most one insert attempt and, only after a
\* uniqueness conflict, one fallback fetch, and it ends either with success
\* or with an error of the persistence layer.
C15_SetEndsOkOrPersistenceError ==
    last.op = "set"
        => /\ AttemptsBounded(last)
           /\ last.err \in {"ok"} \cup PersistenceErrors

\* The rows that do not carry the key of the write call c.
OtherRows(rows, c) ==
    {r \in rows : ~SameKey(r, c.ccx, Block(c.block).location, c.name)}

\* C17: writes are local to their key.  No statement of a set_override or
\* clear_override changes a stored record of another context, location or
\* field, the cache of another block, or the entries of the block's cache
\* for other context ids; get_override never changes the store.
C17_WritesLocal ==
    [][/\ \A p \in Procs :
            (call[p].op \in {"set", "clear"} /\ pc'[p] # pc[p])
                => LET c == call[p] IN
                   /\ OtherRows(store', c) = OtherRows(store, c)
                   /\ \A b \in Blocks \ {c.block} : cache'[b] = cache[b]
                   /\ cache'[c.block].has = cache[c.block].has
                   /\ \A k \in CcxRecords \ {c.ccx} :
                        /\ Cached(cache'[c.block], k) <=> Cached(cache[c.block], k)
                        /\ Cached(cache[c.block], k)
                             => cache'[c.block].map[k] = cache[c.block].map[k]
       /\ last'.op = "get" => store' = store]_vars

\* C17 witness: a set_override returned while the store held records of
\* another field, of another context and of another location, and the
\* cache of another block held an entry.
C17_Witness ==
    /\ last.op = "set" /\ last.err = "ok"
    /\ \E r \in store : r.field # last.name
    /\ \E r \in store : r.ccx # last.ccx
    /\ \E r \in store : r.location # Block(last.block).location
    /\ \E b \in Blocks \ {last.block} : cache[b].has /\ DOMAIN cache[b].map # {}

\* C18: set_override is all-or-nothing.  The committed rows of the call's
\* key change in no statement of the call but its successful return; in
\* particular a call that ends by raising leaves them as they were.
C18_SetAllOrNothing ==
    [][\A p \in Procs :
        (call[p].op = "set" /\ pc'[p] # pc[p])
            => LET c == call[p]
                   after == ObjectsGet(store', c.ccx, Block(c.block).location,
                                       c.name)
               IN  /\ after # RowsOf(c)
                        => (pc'[p] = "idle" /\ last'.proc = p /\ last'.err = "ok")
                   /\ (pc'[p] = "idle" /\ last'.err # "ok") => store' = store]_vars

\* C18 witness: a set_override that had saved its update ended with KeyError
\* and the record of its key still holds another value.
C18_Witness ==
    /\ last.op = "set" /\ last.conflict /\ last.fetches = 1
    /\ last.err = "KeyError"
    /\ \E r \in RowsOf(last) : r.value # Serialized(last.name, last.value)

====
